---- MODULE Spec2Model ----
(***************************************************************************)
(* yi-html-preview: the preview panels of src/src/extension.ts.            *)
(*                                                                         *)
(* Strings are sequences of one-character strings, indexed from 0 by the   *)
(* JavaScript helpers below (s[i+1] is the character at JavaScript index   *)
(* i).  A JavaScript value is a record [t |-> "str", s |-> chars],         *)
(* [t |-> "num", n |-> n], [t |-> "undef"] or [t |-> "null"].              *)
(***************************************************************************)
EXTENDS Integers, Sequences, FiniteSets, TLC

(***************************************************************************)
(* Characters and JavaScript string primitives                             *)
(***************************************************************************)

\* String.prototype.toLowerCase, one character at a time.  "I_dot" stands for
\* U+0130, whose lower case is the two code units "i" and "dot_above".
ToLowerCase1(c) ==
    CASE c = "B" -> <<"b">> [] c = "A" -> <<"a">> [] c = "S" -> <<"s">>
      [] c = "E" -> <<"e">> [] c = "H" -> <<"h">> [] c = "D" -> <<"d">>
      [] c = "I_dot" -> <<"i", "dot_above">>
      [] OTHER -> <<c>>

RECURSIVE toLowerCase(_)
toLowerCase(s) ==
    IF s = <<>> THEN <<>> ELSE ToLowerCase1(Head(s)) \o toLowerCase(Tail(s))

\* Canonicalize of a case-insensitive, non-unicode regular expression: the
\* upper case of the character, except that a non-ASCII character whose upper
\* case is ASCII stays as it is.
Canonicalize(c) ==
    CASE c = "b" -> "B" [] c = "a" -> "A" [] c = "s" -> "S"
      [] c = "e" -> "E" [] c = "h" -> "H" [] c = "d" -> "D"
      [] OTHER -> c

\* s.slice(from, to) for 0 <= from, to
slice(s, from, to) ==
    LET a == IF from > Len(s) THEN Len(s) ELSE from
        b == IF to > Len(s) THEN Len(s) ELSE to
    IN  IF b <= a THEN <<>> ELSE SubSeq(s, a + 1, b)

\* whether pat occurs in s at index i
OccursAt(s, pat, i) ==
    /\ i >= 0
    /\ i + Len(pat) <= Len(s)
    /\ \A k \in 1..Len(pat) : s[i + k] = pat[k]

\* s.indexOf(pat, from): the least index >= from where pat occurs, or -1
indexOf(s, pat, from) ==
    LET hits == {i \in from..Len(s) : OccursAt(s, pat, i)}
    IN  IF hits = {} THEN -1 ELSE CHOOSE i \in hits : \A j \in hits : i <= j

\* s.replace(/c/g, rep) for a one-character pattern c
RECURSIVE replaceAll(_, _, _)
replaceAll(s, c, rep) ==
    IF s = <<>> THEN <<>>
    ELSE (IF Head(s) = c THEN rep ELSE <<Head(s)>>) \o replaceAll(Tail(s), c, rep)

\* whether /<base[^>]*>/i matches at index i of s
BaseRegexMatchesAt(s, i) ==
    /\ i + 5 <= Len(s)
    /\ <<Canonicalize(s[i + 1]), Canonicalize(s[i + 2]), Canonicalize(s[i + 3]),
         Canonicalize(s[i + 4]), Canonicalize(s[i + 5])>> = <<"<", "B", "A", "S", "E">>
    /\ indexOf(s, <<">">>, i + 5) # -1

\* s.replace(/<base[^>]*>/gi, ''), scanning from index i
RECURSIVE ReplaceBaseFrom(_, _)
ReplaceBaseFrom(s, i) ==
    IF i >= Len(s) THEN <<>>
    ELSE IF BaseRegexMatchesAt(s, i)
         THEN ReplaceBaseFrom(s, indexOf(s, <<">">>, i + 5) + 1)
         ELSE <<s[i + 1]>> \o ReplaceBaseFrom(s, i + 1)

Str(chars) == [t |-> "str", s |-> chars]
Undefined == [t |-> "undef"]
Null == [t |-> "null"]
\* a JavaScript number, here a one-digit natural
Num(n) == [t |-> "num", n |-> n]
IsString(v) == v.t = "str"
\* JavaScript truthiness of a string, a number, undefined or null
Truthy(v) ==
    CASE v.t = "str" -> v.s # <<>>
      [] v.t = "num" -> v.n # 0
      [] OTHER -> FALSE

Digit(n) ==
    CASE n = 0 -> "0" [] n = 1 -> "1" [] n = 2 -> "2" [] n = 3 -> "3" [] n = 4 -> "4"
      [] n = 5 -> "5" [] n = 6 -> "6" [] n = 7 -> "7" [] n = 8 -> "8" [] n = 9 -> "9"

\* the string conversion of a value that is concatenated to a string with +
StringOf(v) ==
    CASE v.t = "str" -> v.s
      [] v.t = "num" -> <<Digit(v.n)>>
      [] v.t = "null" -> <<"n", "u", "l", "l">>
      [] OTHER -> <<"u", "n", "d", "e", "f", "i", "n", "e", "d">>

(***************************************************************************)
(* Pure functions of the extension                                         *)
(***************************************************************************)

\* the escaper with its two replacements in the other order
escapeHtmlForAttributeValueQuoteFirst(unsafe) ==
    IF ~IsString(unsafe) THEN Str(<<>>)
    ELSE Str(replaceAll(replaceAll(unsafe.s, "\"", <<"&", "q", "u", "o", "t", ";">>),
                        "&", <<"&", "a", "m", "p", ";">>))

escapeHtmlForAttributeValue(unsafe) ==
    IF ~IsString(unsafe) THEN Str(<<>>)
    ELSE Str(replaceAll(replaceAll(unsafe.s, "&", <<"&", "a", "m", "p", ";">>),
                        "\"", <<"&", "q", "u", "o", "t", ";">>))

injectBaseHref(rawHtml, baseHrefTag) ==
    IF ~Truthy(baseHrefTag) \/ ~IsString(rawHtml)
    THEN (IF Truthy(rawHtml) THEN rawHtml ELSE Str(<<>>))
    ELSE LET cleanHtml == ReplaceBaseFrom(rawHtml.s, 0)
             headTagStart == indexOf(toLowerCase(cleanHtml), <<"<", "h", "e", "a", "d", ">">>, 0)
             headTagEndPos == indexOf(cleanHtml, <<">">>, headTagStart)
         IN  IF headTagStart # -1 /\ headTagEndPos # -1
             THEN Str(slice(cleanHtml, 0, headTagEndPos + 1) \o StringOf(baseHrefTag)
                      \o slice(cleanHtml, headTagEndPos + 1, Len(cleanHtml)))
             ELSE Str(StringOf(baseHrefTag) \o cleanHtml)

\* the script's copy of the injector with the removal of base tags left out
injectBaseHrefIntoStringNoStrip(rawHtml, baseTag) ==
    IF ~Truthy(baseTag) \/ ~IsString(rawHtml)
    THEN (IF Truthy(rawHtml) THEN rawHtml ELSE Str(<<>>))
    ELSE LET cleanHtml == rawHtml.s
             headTagStart == indexOf(toLowerCase(cleanHtml), <<"<", "h", "e", "a", "d", ">">>, 0)
             headTagEndPos == indexOf(cleanHtml, <<">">>, headTagStart)
         IN  IF headTagStart # -1 /\ headTagEndPos # -1
             THEN Str(slice(cleanHtml, 0, headTagEndPos + 1) \o StringOf(baseTag)
                      \o slice(cleanHtml, headTagEndPos + 1, Len(cleanHtml)))
             ELSE Str(StringOf(baseTag) \o cleanHtml)

\* injectBaseHrefIntoString of the page's script
injectBaseHrefIntoString(rawHtml, baseTag) ==
    IF ~Truthy(baseTag) \/ ~IsString(rawHtml)
    THEN (IF Truthy(rawHtml) THEN rawHtml ELSE Str(<<>>))
    ELSE LET cleanHtml == ReplaceBaseFrom(rawHtml.s, 0)
             headTagStart == indexOf(toLowerCase(cleanHtml), <<"<", "h", "e", "a", "d", ">">>, 0)
         IN  IF headTagStart # -1
             THEN LET headTagEndPos == indexOf(cleanHtml, <<">">>, headTagStart)
                  IN  IF headTagEndPos # -1
                      THEN Str(slice(cleanHtml, 0, headTagEndPos + 1) \o StringOf(baseTag)
                               \o slice(cleanHtml, headTagEndPos + 1, Len(cleanHtml)))
                      ELSE Str(StringOf(baseTag) \o cleanHtml)
             ELSE Str(StringOf(baseTag) \o cleanHtml)

\* The value the HTML parser gives the attribute srcdoc="..." of the page: the
\* character references &quot; and &amp; stand for their characters.
RECURSIVE decodeAttributeValue(_)
decodeAttributeValue(s) ==
    IF s = <<>> THEN <<>>
    ELSE IF OccursAt(s, <<"&", "q", "u", "o", "t", ";">>, 0)
    THEN <<"\"">> \o decodeAttributeValue(slice(s, 6, Len(s)))
    ELSE IF OccursAt(s, <<"&", "a", "m", "p", ";">>, 0)
    THEN <<"&">> \o decodeAttributeValue(slice(s, 5, Len(s)))
    ELSE <<Head(s)>> \o decodeAttributeValue(Tail(s))

(***************************************************************************)
(* The editor host: documents, the active editor, panels, timers           *)
(***************************************************************************)

\* Panels the host can create in one run
MaxPanels == 2

\* The documents of the workspace: two markup documents and a text file
Docs == {"a.html", "b.html", "n.txt"}
NoEditor == "none"

\* document.languageId
languageId(d) == IF d = "n.txt" THEN "plaintext" ELSE "html"

\* document.uri: its scheme, its toString() and the directory it lies in
Uri(d) ==
    [scheme |-> IF d = "b.html" THEN "untitled" ELSE "file",
     string |-> d,
     dir    |-> <<"/", "p">>]

\* The texts a document can hold: two markups for a markup document, one text
\* for the text file (a change event need not change the text)
Texts(d) ==
    IF d = "n.txt" THEN { <<"x">> }
    ELSE { <<"<", "h", "e", "a", "d", ">", "&">>,
           <<"<", "b", "a", "s", "e", ">", "\"">> }

VARIABLES
    docText,        \* document.getText() of every document
    docOpen,        \* whether the document is in workspace.textDocuments
    panels,         \* every WebviewPanel created so far, by its number
    previewPanels,  \* the map from documentUriString to its panel
    updateTimeout,  \* the handle of the debounce timer, or NoTimer
    timers,         \* the timers armed in the host's event loop
    calls,          \* the host calls the last handler made, in order
    fn,             \* function-level runs: the function applied so far
    arg,            \* function-level runs: its arguments
    ret,            \* function-level runs: its result
    pages,          \* webview runs: the page of every panel's webview
    inbox,          \* webview runs: the messages posted to the page, not yet handled
    event,          \* webview runs: the listener of a page that ran last
    activated       \* the extension is activated: the host runs its subscriptions

hostVars == <<docText, docOpen, panels, previewPanels, updateTimeout,
              timers, calls, activated>>
fnVars == <<fn, arg, ret>>
pageVars == <<pages, inbox, event>>
vars == <<docText, docOpen, panels, previewPanels, updateTimeout,
          timers, calls, fn, arg, ret, pages, inbox, event, activated>>

NoTimer == 0
\* webview.html before anything is assigned to it: the empty string
NoHtml == [loaded |-> FALSE, baseHrefTagString |-> Str(<<>>), srcdoc |-> Str(<<>>)]
\* no listener of a page ran since the last host handler
NoEvent == [on |-> "none", panel |-> 0, size |-> "", threw |-> FALSE]
\* webview.dispatched before any update: no markup was given to the webview
NoUpdate == Undefined

\* webview.asWebviewUri(uri).toString()
asWebviewUri(dir) == <<"v", ":">> \o dir

endsWith(s, c) == s # <<>> /\ s[Len(s)] = c

\* the resolver without its test of the scheme
getBaseHrefStringAnyScheme(webview, documentUri) ==
    IF webview.asWebviewUriThrows THEN Str(<<>>)
    ELSE LET webviewUri == asWebviewUri(documentUri.dir)
             href == IF endsWith(webviewUri, "/") THEN webviewUri ELSE webviewUri \o <<"/">>
         IN  Str(<<"<", "b", "a", "s", "e", " ", "h", "r", "e", "f", "=", "\"">> \o href
                 \o <<"\"", ">">>)

getBaseHrefString(webview, documentUri) ==
    IF documentUri.scheme # "file" THEN Str(<<>>)
    ELSE IF webview.asWebviewUriThrows THEN Str(<<>>)
    ELSE LET webviewUri == asWebviewUri(documentUri.dir)
             href == IF endsWith(webviewUri, "/") THEN webviewUri ELSE webviewUri \o <<"/">>
         IN  Str(<<"<", "b", "a", "s", "e", " ", "h", "r", "e", "f", "=", "\"">> \o href
                 \o <<"\"", ">">>)

\* The host page: the template is never empty; its parts that vary are the
\* escaped srcdoc attribute and the base tag handed to the script.
getWebviewHtml(webview, rawUserHtml, documentUri) ==
    LET baseHrefTagString == getBaseHrefString(webview, documentUri)
        initialHtmlWithBase == injectBaseHref(rawUserHtml, baseHrefTagString)
    IN  [loaded |-> TRUE,
         baseHrefTagString |-> baseHrefTagString,
         srcdoc |-> escapeHtmlForAttributeValue(initialHtmlWithBase)]

\* updateWebviewContent deciding on forceHtmlReset alone: a webview with no page
\* is sent a message
updateWebviewContentForceOnly(panel, document, forceHtmlReset) ==
    LET htmlContent == Str(docText[document])
        page == getWebviewHtml(panel.webview, htmlContent, Uri(document))
    IN  IF panel.disposed
        THEN { [panel |-> panel, threw |-> TRUE,
                calls |-> <<[api |-> "disposedAccess", panel |-> panel.id]>>] }
        ELSE IF forceHtmlReset
        THEN { [panel |-> [panel EXCEPT !.webview.html = page,
                                        !.webview.dispatched = htmlContent],
                threw |-> FALSE,
                calls |-> <<[api |-> "setHtml", panel |-> panel.id, html |-> page]>>] }
        ELSE { [panel |-> [panel EXCEPT !.webview.dispatched = htmlContent],
                threw |-> FALSE,
                calls |-> <<[api |-> "postMessage", panel |-> panel.id,
                             message |-> [command |-> "updateContent",
                                          html |-> htmlContent]]>>] }

\* updateWebviewContent rebuilding the page on every update
updateWebviewContentAlwaysReset(panel, document, forceHtmlReset) ==
    LET htmlContent == Str(docText[document])
        page == getWebviewHtml(panel.webview, htmlContent, Uri(document))
    IN  IF panel.disposed
        THEN { [panel |-> panel, threw |-> TRUE,
                calls |-> <<[api |-> "disposedAccess", panel |-> panel.id]>>] }
        ELSE { [panel |-> [panel EXCEPT !.webview.html = page,
                                        !.webview.dispatched = htmlContent],
                threw |-> FALSE,
                calls |-> <<[api |-> "setHtml", panel |-> panel.id, html |-> page]>>] }

\* updateWebviewContent assigning the page only to a webview that has one
updateWebviewContentResetLoadedOnly(panel, document, forceHtmlReset) ==
    LET htmlContent == Str(docText[document])
    IN  IF panel.disposed
        THEN { [panel |-> panel, threw |-> TRUE,
                calls |-> <<[api |-> "disposedAccess", panel |-> panel.id]>>],
               [panel |-> panel, threw |-> FALSE,
                calls |-> <<[api |-> "disposedAccess", panel |-> panel.id]>>] }
        ELSE IF forceHtmlReset /\ panel.webview.html.loaded
        THEN LET page == getWebviewHtml(panel.webview, htmlContent, Uri(document))
             IN  { [panel |-> [panel EXCEPT !.webview.html = page,
                                            !.webview.dispatched = htmlContent],
                    threw |-> FALSE,
                    calls |-> <<[api |-> "setHtml", panel |-> panel.id, html |-> page]>>] }
        ELSE { [panel |-> [panel EXCEPT !.webview.dispatched = htmlContent],
                threw |-> FALSE,
                calls |-> <<[api |-> "postMessage", panel |-> panel.id,
                             message |-> [command |-> "updateContent",
                                          html |-> htmlContent]]>>] }

\* updateWebviewContent on the panel object: the set of its outcomes, each the
\* panel afterwards, the host calls made and whether the host threw.  The host
\* either throws on a disposed panel's webview or ignores the access.
\* webview.dispatched is the raw markup of the last update given to the webview,
\* by a page assigned to it or by a message posted to it.
updateWebviewContent(panel, document, forceHtmlReset) ==
    LET htmlContent == Str(docText[document])
    IN  IF panel.disposed
        THEN { [panel |-> panel, threw |-> TRUE,
                calls |-> <<[api |-> "disposedAccess", panel |-> panel.id]>>],
               [panel |-> panel, threw |-> FALSE,
                calls |-> <<[api |-> "disposedAccess", panel |-> panel.id]>>] }
        ELSE IF forceHtmlReset \/ ~panel.webview.html.loaded
        THEN LET page == getWebviewHtml(panel.webview, htmlContent, Uri(document))
             IN  { [panel |-> [panel EXCEPT !.webview.html = page,
                                            !.webview.dispatched = htmlContent],
                    threw |-> FALSE,
                    calls |-> <<[api |-> "setHtml", panel |-> panel.id, html |-> page]>>] }
        ELSE { [panel |-> [panel EXCEPT !.webview.dispatched = htmlContent],
                threw |-> FALSE,
                calls |-> <<[api |-> "postMessage", panel |-> panel.id,
                             message |-> [command |-> "updateContent",
                                          html |-> htmlContent]]>>] }

\* Map.has, Map.get, Map.set, Map.delete on previewPanels
MapHas(m, k) == k \in DOMAIN m
\* a lookup that ignores its key: the panel of some entry
MapGetAny(m, k) == m[CHOOSE x \in DOMAIN m : TRUE]
MapGet(m, k) == m[k]
\* a panel that is never entered in the map
MapSetForgotten(m, k, v) == m
\* an entry that is never removed
MapDeleteForgotten(m, k) == m
MapSet(m, k, v) == [x \in DOMAIN m \cup {k} |-> IF x = k THEN v ELSE m[x]]
MapDelete(m, k) == [x \in DOMAIN m \ {k} |-> m[x]]

\* a listener that empties the map
onDidDisposeClear(documentUriString) == <<>>
\* panel.onDidDispose listener of the panel created for documentUriString
onDidDispose(documentUriString) == MapDelete(previewPanels, documentUriString)

\* vscode.window.createWebviewPanel(viewType, ...)
createWebviewPanel(id, viewType, throws) ==
    [id |-> id, viewType |-> viewType, disposed |-> FALSE,
     webview |-> [html |-> NoHtml, dispatched |-> NoUpdate,
                  asWebviewUriThrows |-> throws]]

TypeOK ==
    /\ \A d \in Docs : docText[d] \in Texts(d)
    /\ docOpen \in [Docs -> BOOLEAN]
    /\ Len(panels) <= MaxPanels
    /\ DOMAIN previewPanels \subseteq Docs
    /\ updateTimeout \in Nat
    /\ activated \in BOOLEAN

HostInit ==
    /\ docText \in {f \in [Docs -> UNION {Texts(d) : d \in Docs}] :
                       \A d \in Docs : f[d] \in Texts(d)}
    /\ docOpen = [d \in Docs |-> TRUE]
    /\ panels = <<>>
    /\ previewPanels = <<>>
    /\ updateTimeout = NoTimer
    /\ timers = {}
    /\ calls = <<>>
    /\ activated = TRUE

FnIdle ==
    /\ fn = "none"
    /\ arg = <<>>
    /\ ret = <<>>

PagesIdle ==
    /\ pages = <<>>
    /\ inbox = <<>>
    /\ event = NoEvent

Init == HostInit /\ FnIdle /\ PagesIdle

\* the command yi-html-preview.showPreview, run while activeEditor is the
\* document of vscode.window.activeTextEditor (NoEditor: there is none)
ShowPreview(activeEditor) ==
    /\ IF activeEditor = NoEditor THEN TRUE ELSE docOpen[activeEditor]
    /\ UNCHANGED <<docText, docOpen, updateTimeout, timers>>
    /\ IF activeEditor = NoEditor
       THEN /\ calls' = <<[api |-> "showInformationMessage"]>>
            /\ UNCHANGED <<panels, previewPanels>>
       ELSE IF languageId(activeEditor) # "html"
       THEN /\ calls' = <<[api |-> "showErrorMessage"]>>
            /\ UNCHANGED <<panels, previewPanels>>
       ELSE LET document == activeEditor
                documentUriString == Uri(document).string
            IN  IF MapHas(previewPanels, documentUriString)
                THEN LET existingPanel == panels[MapGet(previewPanels, documentUriString)]
                     IN  \E r \in updateWebviewContent(existingPanel, document, FALSE) :
                            /\ panels' = [panels EXCEPT ![existingPanel.id] = r.panel]
                            /\ calls' = <<[api |-> "reveal", panel |-> existingPanel.id]>>
                                        \o r.calls
                            /\ UNCHANGED previewPanels
                ELSE /\ Len(panels) < MaxPanels
                     /\ \E throws \in BOOLEAN :
                          LET panel == createWebviewPanel(Len(panels) + 1,
                                                          documentUriString, throws)
                          IN  \E r \in updateWebviewContent(panel, document, TRUE) :
                                /\ previewPanels' =
                                       MapSet(previewPanels, documentUriString, panel.id)
                                /\ panels' = Append(panels, r.panel)
                                /\ calls' = <<[api |-> "createWebviewPanel",
                                               panel |-> panel.id]>> \o r.calls

\* the timer handle setTimeout returns: the least one no armed timer has (the
\* caller overwrites the only handle it keeps)
FreshTimer(armed) ==
    CHOOSE i \in 1..(Cardinality(armed) + 1) :
        /\ \A t \in armed : t.id # i
        /\ \A j \in 1..(i - 1) : \E t \in armed : t.id = j

\* a pending timer that is never cleared
clearTimeoutForgotten(armed, handle) == armed
\* clearTimeout(handle)
clearTimeout(armed, handle) == {t \in armed : t.id # handle}

\* a handler that clears the armed timer before it looks for the panel
ChangeTextDocumentClearFirst(document, text) ==
    /\ docOpen[document]
    /\ docText' = [docText EXCEPT ![document] = text]
    /\ UNCHANGED <<docOpen, panels, previewPanels>>
    /\ LET cleared == IF updateTimeout # NoTimer
                      THEN clearTimeout(timers, updateTimeout) ELSE timers
           cancel == IF updateTimeout # NoTimer
                     THEN <<[api |-> "clearTimeout", handle |-> updateTimeout,
                             cancelled |-> timers \ cleared]>>
                     ELSE <<>>
       IN  IF MapHas(previewPanels, Uri(document).string) /\ languageId(document) = "html"
           THEN LET activePanel == MapGet(previewPanels, Uri(document).string)
                    handle == FreshTimer(cleared)
                IN  /\ timers' = cleared \cup
                           {[id |-> handle, panel |-> activePanel, document |-> document]}
                    /\ updateTimeout' = handle
                    /\ calls' = cancel \o <<[api |-> "setTimeout", handle |-> handle]>>
           ELSE /\ calls' = cancel
                /\ timers' = cleared
                /\ UNCHANGED updateTimeout

\* workspace.onDidChangeTextDocument: the document's text becomes text
ChangeTextDocument(document, text) ==
    /\ docOpen[document]
    /\ docText' = [docText EXCEPT ![document] = text]
    /\ UNCHANGED <<docOpen, panels, previewPanels>>
    /\ IF MapHas(previewPanels, Uri(document).string) /\ languageId(document) = "html"
       THEN LET activePanel == MapGet(previewPanels, Uri(document).string)
                cleared == IF updateTimeout # NoTimer
                           THEN clearTimeout(timers, updateTimeout) ELSE timers
                handle == FreshTimer(cleared)
            IN  /\ timers' = cleared \cup
                       {[id |-> handle, panel |-> activePanel, document |-> document]}
                /\ updateTimeout' = handle
                /\ calls' = (IF updateTimeout # NoTimer
                             THEN <<[api |-> "clearTimeout", handle |-> updateTimeout,
                                     cancelled |-> timers \ cleared]>>
                             ELSE <<>>)
                            \o <<[api |-> "setTimeout", handle |-> handle]>>
       ELSE /\ calls' = <<>>
            /\ UNCHANGED <<updateTimeout, timers>>

\* the debounce timer t fires, 300 ms after it was armed
TimerFire(t) ==
    /\ t \in timers
    /\ timers' = timers \ {t}
    /\ \E r \in updateWebviewContent(panels[t.panel], t.document, FALSE) :
          /\ panels' = [panels EXCEPT ![t.panel] = r.panel]
          /\ calls' = r.calls
          /\ updateTimeout' = IF r.threw THEN updateTimeout ELSE NoTimer
    /\ UNCHANGED <<docText, docOpen, previewPanels>>

\* panel.dispose(): the host disposes the panel, which releases its page, and
\* runs its onDidDispose listener
dispose(id) ==
    /\ panels' = [panels EXCEPT ![id].disposed = TRUE, ![id].webview.html = NoHtml,
                                ![id].webview.dispatched = NoUpdate]
    /\ previewPanels' = onDidDispose(panels[id].viewType)
    /\ calls' = <<[api |-> "dispose", panel |-> id]>>

\* workspace.onDidCloseTextDocument
CloseTextDocument(doc) ==
    /\ docOpen[doc]
    /\ docOpen' = [docOpen EXCEPT ![doc] = FALSE]
    /\ UNCHANGED <<docText, updateTimeout, timers>>
    /\ IF MapHas(previewPanels, Uri(doc).string)
       THEN dispose(MapGet(previewPanels, Uri(doc).string))
       ELSE /\ calls' = <<>>
            /\ UNCHANGED <<panels, previewPanels>>

\* the user closes the panel
ClosePanel(id) ==
    /\ id \in DOMAIN panels
    /\ ~panels[id].disposed
    /\ dispose(id)
    /\ UNCHANGED <<docText, docOpen, updateTimeout, timers>>

\* a visibility change debounced like an edit
ChangeViewStateDebounced(id, visible) ==
    /\ id \in DOMAIN panels
    /\ ~panels[id].disposed
    /\ UNCHANGED <<docText, docOpen, previewPanels, panels>>
    /\ IF visible /\ docOpen[panels[id].viewType]
       THEN LET cleared == clearTimeout(timers, updateTimeout)
                handle == FreshTimer(cleared)
            IN  /\ timers' = cleared \cup
                       {[id |-> handle, panel |-> id, document |-> panels[id].viewType]}
                /\ updateTimeout' = handle
                /\ calls' = <<[api |-> "setTimeout", handle |-> handle]>>
       ELSE /\ calls' = <<>>
            /\ UNCHANGED <<updateTimeout, timers>>

\* panel.onDidChangeViewState: the panel became visible or hidden
ChangeViewState(id, visible) ==
    /\ id \in DOMAIN panels
    /\ ~panels[id].disposed
    /\ UNCHANGED <<docText, docOpen, previewPanels, updateTimeout, timers>>
    /\ LET panel == panels[id]
           documentUriString == panel.viewType
           found == {d \in Docs : docOpen[d] /\ Uri(d).string = documentUriString}
       IN  IF visible /\ found # {}
           THEN \E doc \in found :
                  \E r \in updateWebviewContent(panel, doc, FALSE) :
                     /\ panels' = [panels EXCEPT ![id] = r.panel]
                     /\ calls' = r.calls
           ELSE /\ panels' = panels
                /\ calls' = <<>>

\* the host opens a closed document with the text on disk
OpenTextDocument(doc, text) ==
    /\ ~docOpen[doc]
    /\ docOpen' = [docOpen EXCEPT ![doc] = TRUE]
    /\ docText' = [docText EXCEPT ![doc] = text]
    /\ calls' = <<>>
    /\ UNCHANGED <<panels, previewPanels, updateTimeout, timers>>

\* the panels Map.forEach visits, in the order of their insertion in the map:
\* an entry is set once, when its panel is created, so in the order of the ids
ForEachOrder(m) ==
    SelectSeq([i \in DOMAIN panels |-> i],
              LAMBDA id : \E k \in DOMAIN m : m[k] = id)

\* a deactivation that leaves the armed timer alone
deactivateKeepTimer ==
    /\ activated
    /\ activated' = FALSE
    /\ LET visited == ForEachOrder(previewPanels)
       IN  /\ timers' = timers
           /\ panels' = [p \in DOMAIN panels |->
                            IF \E i \in DOMAIN visited : visited[i] = p
                            THEN [panels[p] EXCEPT !.disposed = TRUE,
                                                   !.webview.html = NoHtml,
                                                   !.webview.dispatched = NoUpdate]
                            ELSE panels[p]]
           /\ previewPanels' = <<>>
           /\ calls' = [i \in DOMAIN visited |-> [api |-> "dispose", panel |-> visited[i]]]
                        \o <<[api |-> "log"]>>
    /\ UNCHANGED <<docText, docOpen, updateTimeout>>

\* deactivate(): the host calls it when the extension is shut down, and then
\* disposes context.subscriptions, so that no command or listener runs after it.
\* Every panel.dispose() runs the panel's onDidDispose listener, which deletes
\* its entry; previewPanels.clear() empties the map.
deactivate ==
    /\ activated
    /\ activated' = FALSE
    /\ LET cleared == IF updateTimeout # NoTimer
                      THEN clearTimeout(timers, updateTimeout) ELSE timers
           visited == ForEachOrder(previewPanels)
       IN  /\ timers' = cleared
           /\ panels' = [p \in DOMAIN panels |->
                            IF \E i \in DOMAIN visited : visited[i] = p
                            THEN [panels[p] EXCEPT !.disposed = TRUE,
                                                   !.webview.html = NoHtml,
                                                   !.webview.dispatched = NoUpdate]
                            ELSE panels[p]]
           /\ previewPanels' = <<>>
           /\ calls' = (IF updateTimeout # NoTimer
                        THEN <<[api |-> "clearTimeout", handle |-> updateTimeout,
                                cancelled |-> timers \ cleared]>>
                        ELSE <<>>)
                       \o [i \in DOMAIN visited |-> [api |-> "dispose", panel |-> visited[i]]]
                       \o <<[api |-> "log"]>>
    /\ UNCHANGED <<docText, docOpen, updateTimeout>>

\* The command and the listeners are subscriptions of the extension: the host
\* runs them while it is activated.  An armed timer is no subscription: it fires
\* whenever it is still armed.
Next ==
    \/ activated /\ \E e \in Docs \cup {NoEditor} : ShowPreview(e) /\ UNCHANGED <<fnVars, pageVars, activated>>
    \/ activated /\ \E d \in Docs : \E t \in Texts(d) : ChangeTextDocument(d, t) /\ UNCHANGED <<fnVars, pageVars, activated>>
    \/ \E t \in timers : TimerFire(t) /\ UNCHANGED <<fnVars, pageVars, activated>>
    \/ activated /\ \E d \in Docs : CloseTextDocument(d) /\ UNCHANGED <<fnVars, pageVars, activated>>
    \/ activated /\ \E p \in DOMAIN panels : ClosePanel(p) /\ UNCHANGED <<fnVars, pageVars, activated>>
    \/ activated /\ \E p \in DOMAIN panels, v \in BOOLEAN : ChangeViewState(p, v) /\ UNCHANGED <<fnVars, pageVars, activated>>
    \/ activated /\ \E d \in Docs : \E t \in Texts(d) : OpenTextDocument(d, t) /\ UNCHANGED <<fnVars, pageVars, activated>>
    \/ deactivate /\ UNCHANGED <<fnVars, pageVars>>

Spec == Init /\ [][Next]_vars

(***************************************************************************)
(* Properties of the panel registry and the update dispatcher              *)
(***************************************************************************)

LivePanels(documentUriString) ==
    {p \in DOMAIN panels : panels[p].viewType = documentUriString /\ ~panels[p].disposed}

DisposedPanels(documentUriString) ==
    {p \in DOMAIN panels : panels[p].viewType = documentUriString /\ panels[p].disposed}

IsDispatch(c) == c.api \in {"setHtml", "postMessage"}

UpdateMessage(p, d) ==
    [api |-> "postMessage", panel |-> p,
     message |-> [command |-> "updateContent", html |-> Str(docText[d])]]

\* C1: every document identity has at most one panel that is created and not
\* disposed, and previewPanels holds at most one entry for it.
C1_OneLiveSurfacePerIdentity ==
    \A d \in Docs :
        /\ Cardinality(LivePanels(Uri(d).string)) <= 1
        /\ Cardinality({k \in DOMAIN previewPanels : k = Uri(d).string}) <= 1

\* the command ran for a document that was previewed, closed and previewed again
C1_Witness ==
    \E d \in Docs :
        /\ MapHas(previewPanels, Uri(d).string)
        /\ DisposedPanels(Uri(d).string) # {}
        /\ calls # <<>>
        /\ calls[1] = [api |-> "reveal", panel |-> previewPanels[Uri(d).string]]

\* C2: the command for a document that has a panel in previewPanels reveals that
\* panel and posts the document's text to it; the page stays, no panel is
\* created and previewPanels is unchanged.
C2_ShowExistingRevealsAndRefreshes ==
    [][\A d \in Docs :
          (docOpen[d] /\ languageId(d) = "html" /\ MapHas(previewPanels, Uri(d).string)
             /\ ShowPreview(d))
          => LET p == previewPanels[Uri(d).string]
             IN  /\ previewPanels' = previewPanels
                 /\ Len(panels') = Len(panels)
                 /\ ~panels'[p].disposed
                 /\ panels'[p].webview.html = panels[p].webview.html
                 /\ calls' = <<[api |-> "reveal", panel |-> p], UpdateMessage(p, d)>>]_vars

\* the command just revealed and refreshed the panel of a previewed document
C2_Witness ==
    \E d \in Docs :
        /\ MapHas(previewPanels, Uri(d).string)
        /\ calls = <<[api |-> "reveal", panel |-> previewPanels[Uri(d).string]],
                     UpdateMessage(previewPanels[Uri(d).string], d)>>

\* C3: previewPanels never holds a disposed panel, the step that disposes a
\* panel removes its entry, and the command for a document whose panel was
\* disposed creates a new panel, enters it and assigns it a freshly built page.
C3_ClosedSurfaceIsReplaced ==
    /\ [](\A k \in DOMAIN previewPanels : ~panels[previewPanels[k]].disposed)
    /\ [][\A p \in DOMAIN panels :
             (~panels[p].disposed /\ panels'[p].disposed)
             => ~MapHas(previewPanels', panels[p].viewType)]_vars
    /\ [][\A d \in Docs :
             (docOpen[d] /\ languageId(d) = "html" /\ DisposedPanels(Uri(d).string) # {}
                /\ LivePanels(Uri(d).string) = {} /\ ShowPreview(d))
             => LET new == Len(panels) + 1
                IN  /\ Len(panels') = new
                    /\ \A p \in DOMAIN panels : panels'[p] = panels[p]
                    /\ panels'[new].viewType = Uri(d).string
                    /\ ~panels'[new].disposed
                    /\ panels'[new].webview.html.loaded
                    /\ panels'[new].webview.dispatched = Str(docText[d])
                    /\ previewPanels' = MapSet(previewPanels, Uri(d).string, new)
                    /\ calls' = <<[api |-> "createWebviewPanel", panel |-> new],
                                  [api |-> "setHtml", panel |-> new,
                                   html |-> panels'[new].webview.html]>>]_vars

\* a panel was closed and the command created another one for the same document
C3_Witness ==
    \E p, q \in DOMAIN panels :
        /\ p < q
        /\ panels[p].viewType = panels[q].viewType
        /\ panels[p].disposed
        /\ ~panels[q].disposed
        /\ panels[q].webview.html.loaded
        /\ MapHas(previewPanels, panels[q].viewType)
        /\ previewPanels[panels[q].viewType] = q
        /\ calls # <<>>
        /\ calls[1] = [api |-> "createWebviewPanel", panel |-> q]

\* C4: an edit of a previewed markup document that finds the timer of an earlier
\* edit of the same document pending cancels that timer and arms one timer in
\* its place without dispatching anything; the timer that fires posts exactly
\* one update, with the document's text at that time, and leaves none armed.
C4_SecondEditReplacesFirst ==
    /\ [][\A d \in Docs : \A t \in Texts(d) :
             (MapHas(previewPanels, Uri(d).string) /\ languageId(d) = "html"
                /\ (\E tm \in timers : tm.document = d) /\ ChangeTextDocument(d, t))
             => /\ docText'[d] = t
                /\ timers' = {[id |-> updateTimeout', panel |-> previewPanels[Uri(d).string],
                               document |-> d]}
                /\ calls' = <<[api |-> "clearTimeout", handle |-> updateTimeout,
                               cancelled |-> timers],
                              [api |-> "setTimeout", handle |-> updateTimeout']>>
                /\ panels' = panels]_vars
    /\ [][\A tm \in timers :
             (~panels[tm.panel].disposed /\ TimerFire(tm))
             => /\ calls' = <<UpdateMessage(tm.panel, tm.document)>>
                /\ panels'[tm.panel].webview.dispatched = Str(docText[tm.document])
                /\ timers' = {}
                /\ updateTimeout' = NoTimer]_vars

\* a second edit of a.html cancelled the timer of the first and armed its own
C4_Witness ==
    /\ Len(calls) = 2
    /\ calls[1].api = "clearTimeout"
    /\ \E tm \in calls[1].cancelled : tm.document = "a.html"
    /\ \E tm \in timers : tm.document = "a.html" /\ ~panels[tm.panel].disposed

\* C5: a timer armed by an edit of a document targets a panel of that document;
\* an edit dispatches nothing by itself, and the timer that fires changes and
\* calls no panel of another document.
C5_EditNeverUpdatesOtherSurface ==
    /\ [](\A tm \in timers : panels[tm.panel].viewType = Uri(tm.document).string)
    /\ [][\A d \in Docs : \A t \in Texts(d) :
             ChangeTextDocument(d, t)
             => /\ SelectSeq(calls', IsDispatch) = <<>>
                /\ panels' = panels]_vars
    /\ [][\A tm \in timers :
             TimerFire(tm)
             => \A q \in DOMAIN panels :
                   panels[q].viewType # Uri(tm.document).string
                   => /\ panels'[q] = panels[q]
                      /\ \A i \in 1..Len(calls') : calls'[i].panel # q]_vars

\* both markup documents are previewed and an edit of a.html armed the timer
C5_Witness ==
    /\ MapHas(previewPanels, "a.html")
    /\ MapHas(previewPanels, "b.html")
    /\ \E tm \in timers : tm.document = "a.html"
    /\ calls # <<>>
    /\ calls[Len(calls)].api = "setTimeout"

\* C6: once no timer is pending, every panel in previewPanels was given the
\* current text of its document: no edit of a previewed document is left
\* without its update.
C6_EditedPreviewCatchesUp ==
    timers = {} =>
        \A k \in DOMAIN previewPanels :
            panels[previewPanels[k]].webview.dispatched = Str(docText[k])

\* C7: the handler of a visibility change leaves the debounce timer and its
\* handle alone, and when the panel is visible and its document is open it posts
\* the document's text within the same step, a timer pending or not.
C7_VisibleUpdateIsImmediate ==
    [][\A p \in DOMAIN panels : \A v \in BOOLEAN :
          ChangeViewState(p, v)
          => /\ timers' = timers
             /\ updateTimeout' = updateTimeout
             /\ (v /\ docOpen[panels[p].viewType])
                => /\ calls' = <<UpdateMessage(p, panels[p].viewType)>>
                   /\ panels'[p].webview.dispatched = Str(docText[panels[p].viewType])]_vars

\* a panel became visible while a timer was pending and was updated at once
C7_Witness ==
    /\ timers # {}
    /\ Len(calls) = 1
    /\ calls[1].api = "postMessage"

\* C18: closing a document that has a panel in previewPanels disposes that panel
\* and removes its entry within the handler; closing a document that has none
\* leaves every panel and entry as it is; the panels and entries of other
\* documents are never touched.
C18_CloseDisposesOwnSurfaceOnly ==
    [][\A d \in Docs : CloseTextDocument(d) =>
          LET key == Uri(d).string
              own == IF MapHas(previewPanels, key) THEN {previewPanels[key]} ELSE {}
          IN  /\ \A p \in own : /\ ~panels[p].disposed
                                /\ panels'[p].disposed
                                /\ calls' = <<[api |-> "dispose", panel |-> p]>>
              /\ ~MapHas(previewPanels', key)
              /\ own = {} => (panels' = panels /\ previewPanels' = previewPanels
                              /\ calls' = <<>>)
              /\ DOMAIN panels' = DOMAIN panels
              /\ \A q \in DOMAIN panels \ own : panels'[q] = panels[q]
              /\ DOMAIN previewPanels' = DOMAIN previewPanels \ {key}
              /\ \A k \in DOMAIN previewPanels' : previewPanels'[k] = previewPanels[k]
      ]_vars

\* a document was closed while it and another document had panels: its panel is
\* disposed and its entry gone, the other panel is still there
C18_Witness ==
    \E p \in DOMAIN panels :
        /\ calls = <<[api |-> "dispose", panel |-> p]>>
        /\ ~docOpen[panels[p].viewType]
        /\ panels[p].disposed
        /\ ~MapHas(previewPanels, panels[p].viewType)
        /\ \E k \in DOMAIN previewPanels : ~panels[previewPanels[k]].disposed

\* an edit of a markup document that has a panel in previewPanels
QualifyingEdit ==
    \E d \in Docs : \E t \in Texts(d) :
        /\ ChangeTextDocument(d, t)
        /\ MapHas(previewPanels, Uri(d).string)
        /\ languageId(d) = "html"

Dispatches(cs) == {i \in DOMAIN cs : IsDispatch(cs[i])}

\* at most one timer is armed
C20_AtMostOneTimer == Cardinality(timers) <= 1

\* a qualifying edit cancels every timer armed before it and arms one, and
\* dispatches nothing for the timers it cancels
C20_EditCancelsThenArms ==
    [][QualifyingEdit =>
          /\ timers # {} => /\ calls'[1].api = "clearTimeout"
                            /\ calls'[1].cancelled = timers
                            /\ Len(calls') = 2
          /\ calls'[Len(calls')].api = "setTimeout"
          /\ Cardinality(timers') = 1
          /\ Dispatches(calls') = {}
      ]_vars

\* a timer that fires leaves no timer armed
C20_FireLeavesNoTimer ==
    [][(\E t \in timers : TimerFire(t)) => timers' = {}]_vars

\* a timer that fires dispatches exactly one update
C20_FireDispatchesOnce ==
    [][(\E t \in timers : TimerFire(t)) => Cardinality(Dispatches(calls')) = 1]_vars

\* C20: at most one debounce timer is armed at any time: every qualifying edit
\* cancels the armed timer before it arms a new one, a timer that fires
\* dispatches exactly one update and leaves no timer armed, and a cancelled timer
\* dispatches nothing.
C20_SingleDebounceTimer ==
    /\ []C20_AtMostOneTimer
    /\ C20_EditCancelsThenArms
    /\ C20_FireLeavesNoTimer
    /\ C20_FireDispatchesOnce

\* the calls by which updateWebviewContent reaches for a panel's webview: an
\* assigned page, a posted message, or an access the host refuses
ReachesWebview(c) == c.api \in {"setHtml", "postMessage", "disposedAccess"}

C27_OtherEditLeavesTimer ==
    [][\A d \in Docs : \A t \in Texts(d) :
          (/\ ChangeTextDocument(d, t)
           /\ ~(MapHas(previewPanels, Uri(d).string) /\ languageId(d) = "html")) =>
             /\ calls' = <<>>
             /\ timers' = timers
             /\ updateTimeout' = updateTimeout
             /\ panels' = panels
             /\ previewPanels' = previewPanels
      ]_vars

\* the timer of a.html is armed, b.html is open and has no panel, and the last
\* handler made no host call: b.html was edited while a.html's update was pending
C27_Witness ==
    /\ MapHas(previewPanels, "a.html")
    /\ timers = {[id |-> 1, panel |-> MapGet(previewPanels, "a.html"),
                  document |-> "a.html"]}
    /\ updateTimeout = 1
    /\ docOpen["b.html"]
    /\ ~MapHas(previewPanels, "b.html")
    /\ calls = <<>>

\* C28: once deactivate() has run, every panel that was created is disposed,
\* previewPanels is empty and no timer is armed, so that nothing runs after it:
\* the last host calls are those of deactivate, and none of them gives an update
\* to a webview.
C28_DeactivateLeavesNothing ==
    ~activated =>
        /\ \A p \in DOMAIN panels : panels[p].disposed
        /\ previewPanels = <<>>
        /\ timers = {}
        /\ calls # <<>> /\ calls[Len(calls)].api = "log"
        /\ \A i \in DOMAIN calls : ~ReachesWebview(calls[i])

\* deactivate() ran while two panels were live and a timer was armed: it
\* cancelled the timer and disposed both panels
C28_Witness ==
    /\ ~activated
    /\ Len(calls) = 4
    /\ calls[1].api = "clearTimeout" /\ calls[1].cancelled # {}
    /\ calls[2] = [api |-> "dispose", panel |-> 1]
    /\ calls[3] = [api |-> "dispose", panel |-> 2]

(***************************************************************************)
(* Function-level runs: one function of the extension applied to inputs    *)
(* drawn from bounded sets                                                 *)
(***************************************************************************)

\* Fragments concatenated into one raw markup
MaxFragments == 3

\* The pieces raw markups are built from
Fragments ==
    { <<"<", "b", "a", "s", "e", ">">>,
      <<"<", "B", "A", "S", "E", " ", "/", ">">>,
      <<"<", "b", "a", "s", "e", "f", "o", "n", "t", ">">>,
      <<"<", "h", "e", "a", "d", ">">>,
      <<"<", "H", "e", "a", "d", ">">>,
      <<"<", "h", "e", "a", "d", " ", "a", ">">>,
      <<"x", "&", "\"">>,
      <<"I_dot", "I_dot", "I_dot", "I_dot", "I_dot", "I_dot">> }

RECURSIVE Concats(_)
Concats(n) ==
    IF n = 0 THEN {<<>>}
    ELSE LET shorter == Concats(n - 1)
         IN  shorter \cup {m \o f : m \in shorter, f \in Fragments}

\* The end-to-end scenario of the design: markup, base tag and rendered content
ExampleMarkup ==
  <<"<", "h", "t", "m", "l", ">", "<", "h", "e", "a", "d", ">", "<", "t", "i",
      "t", "l", "e", ">", "T", "<", "/", "t", "i", "t", "l", "e", ">", "<",
      "/", "h", "e", "a", "d", ">", "<", "b", "o", "d", "y", ">", "H", "i",
      "<", "/", "b", "o", "d", "y", ">", "<", "/", "h", "t", "m", "l", ">">>
ExampleBase ==
  <<"<", "b", "a", "s", "e", " ", "h", "r", "e", "f", "=", "\"", "h", "t", "t",
      "p", "s", ":", "/", "/", "v", "s", "c", "o", "d", "e", "-", "r", "e",
      "s", "o", "u", "r", "c", "e", "/", "p", "r", "o", "j", "/", "\"", ">">>
ExampleResult ==
  <<"<", "h", "t", "m", "l", ">", "<", "h", "e", "a", "d", ">", "<", "b", "a",
      "s", "e", " ", "h", "r", "e", "f", "=", "\"", "h", "t", "t", "p", "s",
      ":", "/", "/", "v", "s", "c", "o", "d", "e", "-", "r", "e", "s", "o",
      "u", "r", "c", "e", "/", "p", "r", "o", "j", "/", "\"", ">", "<", "t",
      "i", "t", "l", "e", ">", "T", "<", "/", "t", "i", "t", "l", "e", ">",
      "<", "/", "h", "e", "a", "d", ">", "<", "b", "o", "d", "y", ">", "H",
      "i", "<", "/", "b", "o", "d", "y", ">", "<", "/", "h", "t", "m", "l", ">">>

Markups == Concats(MaxFragments) \cup {ExampleMarkup}
\* values that are no strings: absent, null, a falsy and a truthy number
NonStrings == {Undefined, Null, Num(0), Num(7)}
RawHtmls == {Str(m) : m \in Markups} \cup NonStrings
BaseHrefTags ==
    { Str(<<>>), Str(ExampleBase),
      getBaseHrefString([asWebviewUriThrows |-> FALSE], Uri("a.html")) }
    \cup NonStrings

\* the panels updateWebviewContent is applied to: open, with no page or a page
FnPanels ==
    LET webviews == {[html |-> NoHtml, dispatched |-> NoUpdate, asWebviewUriThrows |-> t] :
                       t \in BOOLEAN}
        fresh == {[id |-> 1, viewType |-> d, disposed |-> FALSE, webview |-> w] :
                    d \in {"a.html", "b.html"}, w \in webviews}
        paged == {[p EXCEPT !.webview.html = getWebviewHtml(p.webview, Str(t), Uri(p.viewType)),
                            !.webview.dispatched = Str(t)] :
                    p \in fresh, t \in Texts("a.html")}
    IN  fresh \cup paged

\* Fragments concatenated into one text given to the escaper
MaxEscapeFragments == 3

EscapeFragments ==
    { <<"&">>, <<"\"">>, <<"a">>, <<"a", "m", "p", ";">>, <<"q", "u", "o", "t", ";">> }

RECURSIVE EscapeConcats(_)
EscapeConcats(n) ==
    IF n = 0 THEN {<<>>}
    ELSE LET shorter == EscapeConcats(n - 1)
         IN  shorter \cup {m \o f : m \in shorter, f \in EscapeFragments}

EscapeInputs ==
    {[f |-> "escapeHtmlForAttributeValue", unsafe |-> u] :
        u \in {Str(m) : m \in EscapeConcats(MaxEscapeFragments)} \cup NonStrings}

\* document URIs: a file in a directory, a file in the root directory, an
\* unsaved document and a document of a remote file system
DocumentUris ==
    { [scheme |-> "file", string |-> "a.html", dir |-> <<"/", "p">>],
      [scheme |-> "file", string |-> "r.html", dir |-> <<"/">>],
      [scheme |-> "untitled", string |-> "b.html", dir |-> <<"/", "p">>],
      [scheme |-> "vscode-remote", string |-> "c.html", dir |-> <<"/">>] }
Webviews ==
    {[html |-> NoHtml, dispatched |-> NoUpdate, asWebviewUriThrows |-> t] : t \in BOOLEAN}
ResolverInputs ==
    {[f |-> "getBaseHrefString", webview |-> w, documentUri |-> u] :
        w \in Webviews, u \in DocumentUris}
RenderInputs ==
    {[f |-> "getWebviewHtml", webview |-> w, rawUserHtml |-> Str(m), documentUri |-> u] :
        w \in Webviews, m \in Markups, u \in DocumentUris}

InjectInputs ==
    {[f |-> "injectBaseHref", rawHtml |-> r, baseHrefTag |-> b] :
        r \in RawHtmls, b \in BaseHrefTags}
ScriptInjectInputs ==
    {[f |-> "injectBaseHrefIntoString", rawHtml |-> r, baseTag |-> b] :
        r \in RawHtmls, b \in BaseHrefTags}
UpdateInputs ==
    {[f |-> "updateWebviewContent", panel |-> p, document |-> p.viewType,
      forceHtmlReset |-> b] : p \in FnPanels, b \in BOOLEAN}

FnInit ==
    /\ HostInit
    /\ PagesIdle
    /\ fn = "none"
    /\ ret = <<>>
    /\ arg \in InjectInputs \cup ScriptInjectInputs \cup UpdateInputs \cup EscapeInputs
                 \cup ResolverInputs \cup RenderInputs
    /\ arg.f # "updateWebviewContent" =>
           \A d \in Docs : docText[d] = CHOOSE t \in Texts(d) : TRUE

CallEscapeHtmlForAttributeValue ==
    /\ fn = "none"
    /\ arg.f = "escapeHtmlForAttributeValue"
    /\ fn' = arg.f
    /\ ret' = escapeHtmlForAttributeValue(arg.unsafe)
    /\ UNCHANGED <<arg, hostVars, pageVars>>

CallGetBaseHrefString ==
    /\ fn = "none"
    /\ arg.f = "getBaseHrefString"
    /\ fn' = arg.f
    /\ ret' = getBaseHrefString(arg.webview, arg.documentUri)
    /\ UNCHANGED <<arg, hostVars, pageVars>>

CallGetWebviewHtml ==
    /\ fn = "none"
    /\ arg.f = "getWebviewHtml"
    /\ fn' = arg.f
    /\ ret' = getWebviewHtml(arg.webview, arg.rawUserHtml, arg.documentUri)
    /\ UNCHANGED <<arg, hostVars, pageVars>>

CallInjectBaseHref ==
    /\ fn = "none"
    /\ arg.f = "injectBaseHref"
    /\ fn' = arg.f
    /\ ret' = injectBaseHref(arg.rawHtml, arg.baseHrefTag)
    /\ UNCHANGED <<arg, hostVars, pageVars>>

CallInjectBaseHrefIntoString ==
    /\ fn = "none"
    /\ arg.f = "injectBaseHrefIntoString"
    /\ fn' = arg.f
    /\ ret' = injectBaseHrefIntoString(arg.rawHtml, arg.baseTag)
    /\ UNCHANGED <<arg, hostVars, pageVars>>

CallUpdateWebviewContent ==
    /\ fn = "none"
    /\ arg.f = "updateWebviewContent"
    /\ fn' = arg.f
    /\ ret' \in updateWebviewContent(arg.panel, arg.document, arg.forceHtmlReset)
    /\ UNCHANGED <<arg, hostVars, pageVars>>

FnNext ==
    \/ CallEscapeHtmlForAttributeValue
    \/ CallGetBaseHrefString
    \/ CallGetWebviewHtml
    \/ CallInjectBaseHref
    \/ CallInjectBaseHrefIntoString
    \/ CallUpdateWebviewContent

FnSpec == FnInit /\ [][FnNext]_vars

(***************************************************************************)
(* Properties of updateWebviewContent and injectBaseHref                   *)
(***************************************************************************)

\* C8: updateWebviewContent rebuilds the page exactly when forceHtmlReset is set
\* or the webview has no page; otherwise the page stays and exactly one message
\* {command: 'updateContent', html: the document's raw text} is posted.
C8_FullReloadIffForcedOrEmpty ==
    fn = "updateWebviewContent" =>
        LET before == arg.panel.webview.html
            after == ret.panel.webview.html
            text == Str(docText[arg.document])
            fullReload ==
                /\ ret.calls = <<[api |-> "setHtml", panel |-> arg.panel.id, html |-> after]>>
                /\ after.loaded
                /\ after.srcdoc = escapeHtmlForAttributeValue(
                                      injectBaseHref(text, after.baseHrefTagString))
            incremental ==
                /\ after = before
                /\ ret.calls = <<[api |-> "postMessage", panel |-> arg.panel.id,
                                  message |-> [command |-> "updateContent", html |-> text]]>>
        IN  IF arg.forceHtmlReset \/ ~before.loaded THEN fullReload ELSE incremental

\* a webview with no page was updated without forceHtmlReset and got a page
C8_Witness ==
    /\ fn = "updateWebviewContent"
    /\ ~arg.forceHtmlReset
    /\ ~arg.panel.webview.html.loaded
    /\ ret.panel.webview.html.loaded
    /\ ret.calls[1].api = "setHtml"

\* whether the opening tag <name ...> starts at index i of s: the name in any
\* letter case, then a space, a slash or the closing >
IsOpeningTagAt(s, name, i) ==
    /\ i + Len(name) + 1 < Len(s) + 1
    /\ s[i + 1] = "<"
    /\ \A k \in 1..Len(name) : Canonicalize(s[i + 1 + k]) = name[k]
    /\ s[i + Len(name) + 2] \in {" ", "/", ">"}
    /\ indexOf(s, <<">">>, i + Len(name) + 1) # -1

OpeningTags(s, name) == {i \in 0..Len(s) : IsOpeningTagAt(s, name, i)}
BaseTags(s) == OpeningTags(s, <<"B", "A", "S", "E">>)
HeadTags(s) == OpeningTags(s, <<"H", "E", "A", "D">>)

\* s without its base tags
RECURSIVE WithoutBaseTags(_, _)
WithoutBaseTags(s, i) ==
    IF i >= Len(s) THEN <<>>
    ELSE IF i \in BaseTags(s)
         THEN WithoutBaseTags(s, indexOf(s, <<">">>, i + 5) + 1)
         ELSE <<s[i + 1]>> \o WithoutBaseTags(s, i + 1)

InjectApplied ==
    /\ fn = "injectBaseHref"
    /\ IsString(arg.rawHtml)
    /\ IsString(arg.baseHrefTag)
    /\ Truthy(arg.baseHrefTag)

\* C9: with a non-empty base tag, the result of injectBaseHref holds exactly one
\* base tag, the supplied one, and is the raw markup with its base tags removed,
\* nothing else removed, and the supplied tag put in.
C9_ExactlyOneBaseTag ==
    InjectApplied =>
        LET out == ret.s
            tag == arg.baseHrefTag.s
            kept == WithoutBaseTags(arg.rawHtml.s, 0)
        IN  /\ Cardinality(BaseTags(out)) = 1
            /\ \A i \in BaseTags(out) : slice(out, i, i + Len(tag)) = tag
            /\ \E i \in 0..Len(kept) :
                  out = slice(kept, 0, i) \o tag \o slice(kept, i, Len(kept))

\* C10: with a non-empty base tag, the supplied tag stands right after the
\* closing > of the first head opening tag when the raw markup has one, and at
\* the very start of the result otherwise.
C10_AfterFirstHeadTag ==
    InjectApplied =>
        LET out == ret.s
            tag == arg.baseHrefTag.s
        IN  IF HeadTags(arg.rawHtml.s) # {}
            THEN /\ HeadTags(out) # {}
                 /\ LET first == CHOOSE i \in HeadTags(out) : \A j \in HeadTags(out) : i <= j
                        close == indexOf(out, <<">">>, first)
                    IN  slice(out, close + 1, close + 1 + Len(tag)) = tag
            ELSE slice(out, 0, Len(tag)) = tag

\* the end-to-end scenario: the example markup and base tag give the example result
ExampleHolds ==
    (InjectApplied /\ arg.rawHtml = Str(ExampleMarkup) /\ arg.baseHrefTag = Str(ExampleBase))
        => ret = Str(ExampleResult)

\* the two arguments of an injector run, whichever injector ran
InjectorRan == fn \in {"injectBaseHref", "injectBaseHrefIntoString"}
ArgRaw == arg.rawHtml
ArgBase == IF arg.f = "injectBaseHref" THEN arg.baseHrefTag ELSE arg.baseTag

\* C11: the injector changes nothing when either input is empty or absent: with
\* an empty or absent base tag the raw markup is returned as it is, and with an
\* empty or absent raw markup the result is the empty markup whatever the base
\* tag is.
C11_NoOpOnEmptyInput ==
    InjectorRan =>
        /\ (ArgBase \in {Str(<<>>), Undefined, Null} /\ IsString(ArgRaw)) => ret = ArgRaw
        /\ ArgRaw \in {Str(<<>>), Undefined, Null} => ret = Str(<<>>)

\* C12: the extension's injector and the script's injector return the same
\* result for every raw markup and base tag, strings or not.
C12_InjectorsAgree ==
    /\ fn = "injectBaseHref" =>
           ret = injectBaseHrefIntoString(arg.rawHtml, arg.baseHrefTag)
    /\ fn = "injectBaseHrefIntoString" =>
           ret = injectBaseHref(arg.rawHtml, arg.baseTag)

\* the script's injector ran on a markup with a base tag and a head tag and on
\* a number, and put the base tag after the head tag
C12_Witness ==
    /\ fn = "injectBaseHrefIntoString"
    /\ arg.rawHtml = Str(<<"<", "b", "a", "s", "e", ">", "<", "h", "e", "a", "d", ">">>)
    /\ arg.baseTag = Num(7)
    /\ ret = Str(<<"<", "h", "e", "a", "d", ">", "7">>)

Occurrences(s, pat) == Cardinality({i \in 0..Len(s) : OccursAt(s, pat, i)})

\* C13: for every string, the escaped text holds no double quote, holds
\* &amp;quot; only where the string itself had &quot; (never for a double quote
\* of the string), and read back as an attribute value is the string again.
C13_EscapeRoundTrip ==
    (fn = "escapeHtmlForAttributeValue" /\ IsString(arg.unsafe)) =>
        /\ Occurrences(ret.s, <<"\"">>) = 0
        /\ Occurrences(ret.s, <<"&", "a", "m", "p", ";", "q", "u", "o", "t", ";">>)
               = Occurrences(arg.unsafe.s, <<"&", "q", "u", "o", "t", ";">>)
        /\ decodeAttributeValue(ret.s) = arg.unsafe.s

\* a string with a double quote and with the text &quot; was escaped
C13_Witness ==
    /\ fn = "escapeHtmlForAttributeValue"
    /\ arg.unsafe = Str(<<"\"", "&", "q", "u", "o", "t", ";">>)
    /\ ret = Str(<<"&", "q", "u", "o", "t", ";",
                   "&", "a", "m", "p", ";", "q", "u", "o", "t", ";">>)

\* whether the resolver has no base tag to give: the document is no file or the
\* webview fails to give its directory a URI
NoBaseHref(webview, documentUri) ==
    documentUri.scheme # "file" \/ webview.asWebviewUriThrows

\* C14: the resolver returns the empty string for a document that is no file and
\* when asWebviewUri throws, and the page is then still built, its frame holding
\* the raw markup as it is; for a file it returns <base href="U"> where U is the
\* webview URI of the document's directory, ending with one "/" put after it when
\* it had none.
C14_ResolverDegradesToNoBaseTag ==
    /\ fn = "getBaseHrefString" =>
          IF NoBaseHref(arg.webview, arg.documentUri)
          THEN ret = Str(<<>>)
          ELSE LET v == asWebviewUri(arg.documentUri.dir)
                   U == slice(ret.s, 12, Len(ret.s) - 2)
               IN  /\ ret.s = <<"<", "b", "a", "s", "e", " ", "h", "r", "e", "f", "=", "\"">>
                              \o U \o <<"\"", ">">>
                   /\ endsWith(U, "/")
                   /\ U = IF endsWith(v, "/") THEN v ELSE v \o <<"/">>
    /\ (fn = "getWebviewHtml" /\ NoBaseHref(arg.webview, arg.documentUri)) =>
          /\ ret.loaded
          /\ ret.baseHrefTagString = Str(<<>>)
          /\ decodeAttributeValue(ret.srcdoc.s) = arg.rawUserHtml.s

\* the page was built for a file whose directory the webview gave no URI, from a
\* markup with a base tag, a head tag and a double quote
C14_Witness ==
    /\ fn = "getWebviewHtml"
    /\ arg.documentUri.scheme = "file"
    /\ arg.webview.asWebviewUriThrows
    /\ arg.rawUserHtml = Str(<<"<", "b", "a", "s", "e", ">", "<", "h", "e", "a", "d", ">",
                              "x", "&", "\"">>)
    /\ ret.loaded
    /\ decodeAttributeValue(ret.srcdoc.s) = arg.rawUserHtml.s

(***************************************************************************)
(* Webview runs: the page of a panel's webview, with its controls, its     *)
(* frame and its script, and the host handlers that reach it               *)
(***************************************************************************)

\* Messages posted to one page and not yet handled
MaxInbox == 2

\* The document whose preview the webview runs follow
WebviewDoc == "a.html"

\* data-size of the four size buttons
Sizes == {"mobile", "tablet", "laptop", "desktop"}

\* the page the message listener falls back to
ErrorPage ==
    Str(<<
      "<", "h", "t", "m", "l", ">", "<", "b", "o", "d", "y", ">", "E", "r",
      "r", "o", "r", " ", "u", "p", "d", "a", "t", "i", "n", "g", " ", "p",
      "r", "e", "v", "i", "e", "w", " ", "c", "o", "n", "t", "e", "n", "t",
      ".", " ", "C", "h", "e", "c", "k", " ", "c", "o", "n", "s", "o", "l",
      "e", ".", "<", "/", "b", "o", "d", "y", ">", "<", "/", "h", "t", "m",
      "l", ">" >>)

\* JSON.stringify of a string: quoted, with \ and " escaped
JSONstringify(s) ==
    <<"\"">> \o replaceAll(replaceAll(s, "\\", <<"\\", "\\">>), "\"", <<"\\", "\"">>)
    \o <<"\"">>

RECURSIVE Unescape(_)
Unescape(s) ==
    IF s = <<>> THEN <<>>
    ELSE IF Head(s) = "\\" /\ Len(s) >= 2
    THEN <<s[2]>> \o Unescape(slice(s, 2, Len(s)))
    ELSE <<Head(s)>> \o Unescape(Tail(s))

\* the value of a string literal of the script
StringLiteral(lit) == Unescape(slice(lit, 1, Len(lit) - 1))

\* a webview that shows no page: nothing was assigned to it, or its panel is
\* hidden (the panel is created without retainContextWhenHidden)
NoPage ==
    [phase |-> "none", currentSize |-> "undefined", isLandscape |-> FALSE,
     baseHrefTagString |-> Undefined, active |-> {}, wrapperClass |-> {},
     alignItems |-> "", disabled |-> FALSE, srcdoc |-> Undefined, erred |-> FALSE]

\* the document parsed from webview.html, before its script runs: the desktop
\* button is active, the wrapper has class desktop, the orientation button is
\* disabled and the frame holds what the srcdoc attribute reads as
ParsedPage(html) ==
    [phase |-> "loading", currentSize |-> "undefined", isLandscape |-> FALSE,
     baseHrefTagString |-> Undefined, active |-> {"desktop"},
     wrapperClass |-> {"desktop"}, alignItems |-> "", disabled |-> TRUE,
     srcdoc |-> Str(decodeAttributeValue(html.srcdoc.s)), erred |-> FALSE]

\* an orientation button that is enabled for every size
updateOrientationButtonStateAlwaysEnabled(page) == [page EXCEPT !.disabled = FALSE]

updateOrientationButtonState(page) ==
    [page EXCEPT !.disabled = (page.currentSize = "desktop")]

\* the script of the page, run once when the page is loaded
RunScript(page, html) ==
    LET state == [page EXCEPT
                    !.phase = "ready",
                    !.currentSize = "desktop",
                    !.isLandscape = FALSE,
                    !.baseHrefTagString =
                        Str(StringLiteral(JSONstringify(html.baseHrefTagString.s)))]
        aligned == [state EXCEPT !.alignItems = IF state.currentSize = "desktop"
                                                THEN "stretch" ELSE "flex-start"]
    IN  updateOrientationButtonState(aligned)

\* a size button that keeps the orientation of the size shown before
sizeButtonClickKeepOrientation(page, size) ==
    IF size # page.currentSize
    THEN updateOrientationButtonState(
             [page EXCEPT !.currentSize = size,
                          !.active = {size},
                          !.wrapperClass = {size} \cup (page.wrapperClass \cap {"landscape"}),
                          !.alignItems = IF size = "desktop" THEN "stretch"
                                         ELSE "flex-start"])
    ELSE page

\* a size button that leaves the orientation button as it was
sizeButtonClickStaleToggle(page, size) ==
    IF size # page.currentSize
    THEN [page EXCEPT !.currentSize = size,
                      !.isLandscape = FALSE,
                      !.active = {size},
                      !.wrapperClass = {size},
                      !.alignItems = IF size = "desktop" THEN "stretch"
                                     ELSE "flex-start"]
    ELSE page

\* a size button that does not remove the class active from the other buttons
sizeButtonClickKeepActive(page, size) ==
    IF size # page.currentSize
    THEN updateOrientationButtonState(
             [page EXCEPT !.currentSize = size,
                          !.isLandscape = FALSE,
                          !.active = page.active \cup {size},
                          !.wrapperClass = {size},
                          !.alignItems = IF size = "desktop" THEN "stretch"
                                         ELSE "flex-start"])
    ELSE page

\* a size button that applies its size whether or not it is the current one
sizeButtonClickAlways(page, size) ==
    updateOrientationButtonState(
        [page EXCEPT !.currentSize = size,
                     !.isLandscape = FALSE,
                     !.active = {size},
                     !.wrapperClass = {size},
                     !.alignItems = IF size = "desktop" THEN "stretch"
                                    ELSE "flex-start"])

\* the click listener of the size button whose data-size is size
sizeButtonClick(page, size) ==
    IF size # page.currentSize
    THEN updateOrientationButtonState(
             [page EXCEPT !.currentSize = size,
                          !.isLandscape = FALSE,
                          !.active = {size},
                          !.wrapperClass = {size},
                          !.alignItems = IF size = "desktop" THEN "stretch"
                                         ELSE "flex-start"])
    ELSE page

\* an orientation button that also turns the desktop size
orientationButtonClickAnySize(page) ==
    updateOrientationButtonState(
        [page EXCEPT !.isLandscape = ~page.isLandscape,
                     !.wrapperClass = IF ~page.isLandscape
                                      THEN page.wrapperClass \cup {"landscape"}
                                      ELSE page.wrapperClass \ {"landscape"}])

\* the click listener of the orientation button
orientationButtonClick(page) ==
    IF page.currentSize = "desktop" THEN page
    ELSE updateOrientationButtonState(
             [page EXCEPT !.isLandscape = ~page.isLandscape,
                          !.wrapperClass = IF ~page.isLandscape
                                           THEN page.wrapperClass \cup {"landscape"}
                                           ELSE page.wrapperClass \ {"landscape"}])

\* a message listener that leaves the frame as it is when the update throws
onMessageNoFallback(page, message, throws) ==
    IF message.command = "updateContent"
    THEN IF throws
         THEN [page EXCEPT !.erred = TRUE]
         ELSE [page EXCEPT !.srcdoc =
                   injectBaseHrefIntoString(message.html, page.baseHrefTagString)]
    ELSE page

\* a message listener that injects no base tag
onMessageNoBase(page, message, throws) ==
    IF message.command = "updateContent"
    THEN IF throws
         THEN [page EXCEPT !.erred = TRUE, !.srcdoc = ErrorPage]
         ELSE [page EXCEPT !.srcdoc = injectBaseHrefIntoString(message.html, Str(<<>>))]
    ELSE page

\* the message listener of the page; throws: the injection or the assignment to
\* iframe.srcdoc raises an exception
onMessage(page, message, throws) ==
    IF message.command = "updateContent"
    THEN IF throws
         THEN [page EXCEPT !.erred = TRUE, !.srcdoc = ErrorPage]
         ELSE [page EXCEPT !.srcdoc =
                   injectBaseHrefIntoString(message.html, page.baseHrefTagString)]
    ELSE page

\* width and height the style sheet gives #iframe-wrapper with these classes
WrapperSize(wrapperClass) ==
    LET landscape == "landscape" \in wrapperClass
    IN  CASE "mobile" \in wrapperClass ->
               IF landscape THEN [width |-> 667, height |-> 375, unit |-> "px"]
               ELSE [width |-> 375, height |-> 667, unit |-> "px"]
          [] "tablet" \in wrapperClass ->
               IF landscape THEN [width |-> 1024, height |-> 768, unit |-> "px"]
               ELSE [width |-> 768, height |-> 1024, unit |-> "px"]
          [] "laptop" \in wrapperClass ->
               IF landscape THEN [width |-> 768, height |-> 1366, unit |-> "px"]
               ELSE [width |-> 1366, height |-> 768, unit |-> "px"]
          [] OTHER -> [width |-> 100, height |-> 100, unit |-> "%"]

SetHtmlFor(cs, p) == {i \in DOMAIN cs : cs[i].api = "setHtml" /\ cs[i].panel = p}
PostedTo(cs, p) == {i \in DOMAIN cs : cs[i].api = "postMessage" /\ cs[i].panel = p}

\* what the webviews get of the host calls cs: an html assigned to a webview is
\* parsed as its page, a message posted to a webview that shows a page is queued
\* for the page, a message posted to a webview that shows none is dropped
Delivered(cs) ==
    /\ pages' = [p \in DOMAIN panels' |->
                   IF SetHtmlFor(cs, p) # {} THEN ParsedPage(panels'[p].webview.html)
                   ELSE IF p \in DOMAIN pages THEN pages[p] ELSE NoPage]
    /\ inbox' = [p \in DOMAIN panels' |->
                   IF SetHtmlFor(cs, p) # {} \/ p \notin DOMAIN inbox THEN <<>>
                   ELSE IF PostedTo(cs, p) # {} /\ pages[p].phase # "none"
                   THEN Append(inbox[p], cs[CHOOSE i \in PostedTo(cs, p) : TRUE].message)
                   ELSE inbox[p]]
    /\ event' = NoEvent

InboxHasRoom == \A p \in DOMAIN inbox : Len(inbox[p]) < MaxInbox

\* the command, run while the document is in the active editor
WebviewShowPreview ==
    /\ InboxHasRoom
    /\ ShowPreview(WebviewDoc)
    /\ Delivered(calls')
    /\ UNCHANGED <<fnVars, activated>>

WebviewChangeTextDocument ==
    /\ \E t \in Texts(WebviewDoc) : ChangeTextDocument(WebviewDoc, t)
    /\ UNCHANGED <<fnVars, pageVars, activated>>

WebviewTimerFire ==
    /\ InboxHasRoom
    /\ \E t \in timers : TimerFire(t)
    /\ Delivered(calls')
    /\ UNCHANGED <<fnVars, activated>>

\* the panel is hidden: its handler does nothing and the host discards the page
HidePanel(p) ==
    /\ pages[p].phase # "none"
    /\ ChangeViewState(p, FALSE)
    /\ pages' = [pages EXCEPT ![p] = NoPage]
    /\ inbox' = [inbox EXCEPT ![p] = <<>>]
    /\ event' = NoEvent
    /\ UNCHANGED <<fnVars, activated>>

\* the panel is shown: the host loads webview.html again when it had discarded
\* the page, and the handler of the panel posts its update
RevealPanel(p) ==
    /\ InboxHasRoom
    /\ ChangeViewState(p, TRUE)
    /\ LET shown == IF pages[p].phase = "none"
                    THEN [pages EXCEPT ![p] = ParsedPage(panels[p].webview.html)]
                    ELSE pages
       IN  /\ pages' = shown
           /\ inbox' = [inbox EXCEPT ![p] =
                          IF PostedTo(calls', p) # {}
                          THEN Append(inbox[p],
                                      calls'[CHOOSE i \in PostedTo(calls', p) : TRUE].message)
                          ELSE inbox[p]]
    /\ event' = NoEvent
    /\ UNCHANGED <<fnVars, activated>>

\* the page is loaded and its script runs
LoadPage(p) ==
    /\ pages[p].phase = "loading"
    /\ pages' = [pages EXCEPT ![p] = RunScript(pages[p], panels[p].webview.html)]
    /\ event' = [on |-> "load", panel |-> p, size |-> "", threw |-> FALSE]
    /\ UNCHANGED <<hostVars, fnVars, inbox>>

\* the page handles the oldest message posted to it
ReceiveMessage(p, throws) ==
    /\ pages[p].phase = "ready"
    /\ inbox[p] # <<>>
    /\ pages' = [pages EXCEPT ![p] = onMessage(pages[p], Head(inbox[p]), throws)]
    /\ inbox' = [inbox EXCEPT ![p] = Tail(inbox[p])]
    /\ event' = [on |-> "message", panel |-> p, size |-> "", threw |-> throws]
    /\ UNCHANGED <<hostVars, fnVars>>

\* the user clicks a size button
ClickSize(p, size) ==
    /\ pages[p].phase = "ready"
    /\ pages' = [pages EXCEPT ![p] = sizeButtonClick(pages[p], size)]
    /\ event' = [on |-> "size", panel |-> p, size |-> size, threw |-> FALSE]
    /\ UNCHANGED <<hostVars, fnVars, inbox>>

\* a click reaches the orientation button
ClickOrientation(p) ==
    /\ pages[p].phase = "ready"
    /\ pages' = [pages EXCEPT ![p] = orientationButtonClick(pages[p])]
    /\ event' = [on |-> "orientation", panel |-> p, size |-> "", threw |-> FALSE]
    /\ UNCHANGED <<hostVars, fnVars, inbox>>

WebviewNext ==
    \/ WebviewShowPreview
    \/ WebviewChangeTextDocument
    \/ WebviewTimerFire
    \/ \E p \in DOMAIN pages : HidePanel(p)
    \/ \E p \in DOMAIN pages : RevealPanel(p)
    \/ \E p \in DOMAIN pages : LoadPage(p)
    \/ \E p \in DOMAIN pages, throws \in BOOLEAN : ReceiveMessage(p, throws)
    \/ \E p \in DOMAIN pages, size \in Sizes : ClickSize(p, size)
    \/ \E p \in DOMAIN pages : ClickOrientation(p)

WebviewSpec == Init /\ [][WebviewNext]_vars

(***************************************************************************)
(* Properties of the page's script                                         *)
(***************************************************************************)

\* C15: after a click on the mobile, tablet or laptop button the page is in
\* portrait and its orientation button is enabled; after a click on the desktop
\* button the orientation button is disabled.
C15_SizeClickSetsOrientation ==
    event.on = "size" =>
        LET page == pages[event.panel]
        IN  IF event.size # "desktop"
            THEN ~page.isLandscape /\ ~page.disabled
            ELSE page.disabled

\* C15, amended: a click on a size button other than the one of the current size
\* leaves the page in portrait with the orientation button enabled (mobile,
\* tablet, laptop) or disabled (desktop); a click on the button of the current
\* size changes nothing and so keeps a landscape orientation.
C15_OtherSizeClickSetsOrientation ==
    [][\A p \in DOMAIN pages : \A size \in Sizes :
          ClickSize(p, size) =>
             IF size # pages[p].currentSize
             THEN /\ pages'[p].currentSize = size
                  /\ ~pages'[p].isLandscape
                  /\ pages'[p].disabled = (size = "desktop")
             ELSE pages'[p] = pages[p]
      ]_vars

\* the tablet button was clicked on a page that showed another size, and the
\* page is in portrait with the orientation button enabled
C15_Witness ==
    /\ event.on = "size"
    /\ event.size = "tablet"
    /\ pages[event.panel].currentSize = "tablet"
    /\ pages[event.panel].wrapperClass = {"tablet"}
    /\ ~pages[event.panel].isLandscape
    /\ ~pages[event.panel].disabled

\* width and height of a size in portrait
Portrait(size) ==
    CASE size = "mobile" -> [width |-> 375, height |-> 667, unit |-> "px"]
      [] size = "tablet" -> [width |-> 768, height |-> 1024, unit |-> "px"]
      [] size = "laptop" -> [width |-> 1366, height |-> 768, unit |-> "px"]

Swapped(wh) == [width |-> wh.height, height |-> wh.width, unit |-> wh.unit]

\* two clicks on the orientation button give the page back as it was, and the
\* wrapper of a page that is not at the desktop size has the portrait width and
\* height of its size, swapped exactly when the page is in landscape
C16_TwoClicksRestoreAndSizeSwaps ==
    \A p \in DOMAIN pages :
        pages[p].phase = "ready" =>
            /\ orientationButtonClick(orientationButtonClick(pages[p])) = pages[p]
            /\ pages[p].currentSize # "desktop" =>
                  WrapperSize(pages[p].wrapperClass) =
                      IF pages[p].isLandscape THEN Swapped(Portrait(pages[p].currentSize))
                      ELSE Portrait(pages[p].currentSize)

\* C16: a click on the orientation button changes nothing at the desktop size;
\* at any other size it flips isLandscape, gives the wrapper the class landscape
\* exactly when the page is then in landscape, and leaves the size as it is; two
\* clicks restore the page, and the wrapper has the portrait width and height of
\* the size (mobile 375x667, tablet 768x1024, laptop 1366x768), swapped exactly
\* when isLandscape is true.
C16_OrientationToggle ==
    /\ []C16_TwoClicksRestoreAndSizeSwaps
    /\ [][\A p \in DOMAIN pages :
            ClickOrientation(p) =>
               IF pages[p].currentSize = "desktop"
               THEN pages'[p] = pages[p]
               ELSE /\ pages'[p].isLandscape = ~pages[p].isLandscape
                    /\ ("landscape" \in pages'[p].wrapperClass) = pages'[p].isLandscape
                    /\ pages'[p].wrapperClass \ {"landscape"}
                          = pages[p].wrapperClass \ {"landscape"}
                    /\ pages'[p].currentSize = pages[p].currentSize
                    /\ pages'[p].active = pages[p].active
        ]_vars

\* the orientation button was clicked at the laptop size: the page is in
\* landscape and its wrapper is 768 wide and 1366 high
C16_Witness ==
    /\ event.on = "orientation"
    /\ pages[event.panel].currentSize = "laptop"
    /\ pages[event.panel].isLandscape
    /\ pages[event.panel].wrapperClass = {"laptop", "landscape"}
    /\ WrapperSize(pages[event.panel].wrapperClass)
          = [width |-> 768, height |-> 1366, unit |-> "px"]

\* the size, the orientation and the controls of a page
ViewOf(page) ==
    [currentSize |-> page.currentSize, isLandscape |-> page.isLandscape,
     active |-> page.active, wrapperClass |-> page.wrapperClass,
     alignItems |-> page.alignItems, disabled |-> page.disabled]

\* C17: when the handling of an updateContent message throws, the frame holds
\* the error page afterwards; the size, the orientation, the controls, the
\* panels and previewPanels are as before; and the page goes on handling
\* messages and clicks: a later message that does not throw puts its markup in
\* the frame, a later click on another size changes the size.
C17_ThrowFallsBackToErrorPage ==
    [][\A p \in DOMAIN pages :
          /\ ReceiveMessage(p, TRUE) =>
                /\ pages'[p].srcdoc = ErrorPage
                /\ ViewOf(pages'[p]) = ViewOf(pages[p])
                /\ pages'[p].baseHrefTagString = pages[p].baseHrefTagString
                /\ pages'[p].phase = "ready"
                /\ previewPanels' = previewPanels
                /\ panels' = panels
          /\ (pages[p].erred /\ ReceiveMessage(p, FALSE)) =>
                pages'[p].srcdoc = injectBaseHrefIntoString(Head(inbox[p]).html,
                                                            pages[p].baseHrefTagString)
          /\ \A size \in Sizes :
                (pages[p].erred /\ ClickSize(p, size) /\ size # pages[p].currentSize) =>
                    pages'[p].currentSize = size
      ]_vars

\* a message threw on a page at the tablet size in landscape: the frame holds
\* the error page, the page is still at the tablet size in landscape and its
\* panel is still in previewPanels
C17_Witness ==
    /\ event.on = "message"
    /\ event.threw
    /\ pages[event.panel].srcdoc = ErrorPage
    /\ pages[event.panel].currentSize = "tablet"
    /\ pages[event.panel].isLandscape
    /\ MapHas(previewPanels, WebviewDoc)
    /\ previewPanels[WebviewDoc] = event.panel

\* the controls of a page show the desktop size
DesktopControls(page) ==
    /\ page.active = {"desktop"}
    /\ page.wrapperClass = {"desktop"}
    /\ page.disabled

\* a page whose html was assigned shows the desktop controls before its script
\* runs, and is at the desktop size in portrait with these controls once the
\* script has run
C19_LoadedPageIsDefault ==
    \A p \in DOMAIN pages :
        /\ pages[p].phase = "loading" => DesktopControls(pages[p])
        /\ (event.on = "load" /\ event.panel = p) =>
               /\ pages[p].phase = "ready"
               /\ pages[p].currentSize = "desktop"
               /\ ~pages[p].isLandscape
               /\ DesktopControls(pages[p])

\* C19: after every full reload the page is at the desktop size in portrait,
\* its orientation button disabled and its desktop button active, whatever the
\* page showed before; the handling of an updateContent message leaves the size
\* and the orientation as they are.
C19_ReloadResetsViewport ==
    /\ []C19_LoadedPageIsDefault
    /\ [][\A p \in DOMAIN pages : \A throws \in BOOLEAN :
            ReceiveMessage(p, throws) =>
               /\ pages'[p].currentSize = pages[p].currentSize
               /\ pages'[p].isLandscape = pages[p].isLandscape
        ]_vars

\* the script of a page has just run while an update for the page is waiting:
\* the page is at the desktop size in portrait
C19_Witness ==
    /\ event.on = "load"
    /\ pages[event.panel].currentSize = "desktop"
    /\ ~pages[event.panel].isLandscape
    /\ pages[event.panel].disabled
    /\ pages[event.panel].active = {"desktop"}
    /\ inbox[event.panel] # <<>>

\* the markup of the update a page shows or will show last: that of the newest
\* message waiting for it, or else the markup in its frame
NewestUpdate(p) ==
    IF inbox[p] # <<>>
    THEN injectBaseHrefIntoString(inbox[p][Len(inbox[p])].html,
                                  panels[p].webview.html.baseHrefTagString)
    ELSE pages[p].srcdoc

\* C22: the first update a panel gets is the page assigned to webview.html: a
\* webview that was given an update has a page, and 'updateContent' is posted
\* only to a webview whose html is already set.  The page and the messages of a
\* panel are applied in the order in which the handlers gave them: whenever no
\* update failed in the page, the update that is applied last is the one the
\* host gave last.
C22_UpdatesInOrder ==
    /\ [](\A p \in DOMAIN panels :
            /\ panels[p].webview.dispatched # NoUpdate => panels[p].webview.html.loaded
            /\ pages[p].phase # "none" => panels[p].webview.html.loaded
            /\ inbox[p] # <<>> => pages[p].phase # "none"
            /\ (pages[p].phase # "none" /\ ~pages[p].erred) =>
                  NewestUpdate(p) =
                      injectBaseHrefIntoString(panels[p].webview.dispatched,
                                               panels[p].webview.html.baseHrefTagString))
    /\ [][\A i \in DOMAIN calls' :
             calls'[i].api = "postMessage" =>
                /\ calls'[i].panel \in DOMAIN panels
                /\ panels[calls'[i].panel].webview.html.loaded
                /\ panels'[calls'[i].panel].webview.html = panels[calls'[i].panel].webview.html
         ]_vars

\* two updates with different markup were posted while the page was loading:
\* they wait for the page in the order of their handlers
C22_Witness ==
    \E p \in DOMAIN panels :
        /\ pages[p].phase = "loading"
        /\ Len(inbox[p]) = 2
        /\ inbox[p][1].html # inbox[p][2].html
        /\ inbox[p][2].html = panels[p].webview.dispatched
        /\ calls # <<>> /\ calls[Len(calls)].api = "postMessage"
\* C23: a click on the size button of the current size changes nothing: the
\* page keeps currentSize, isLandscape, the classes of the wrapper, the active
\* button, the alignment of the container and the disabled state of the
\* orientation button, and its frame and waiting messages.
C23_SameSizeClickIsNoOp ==
    [][\A p \in DOMAIN pages :
          ClickSize(p, pages[p].currentSize) =>
             /\ pages' = pages
             /\ inbox' = inbox
      ]_vars

\* the button of the current size was clicked on a page in landscape, which is
\* still in landscape
C23_Witness ==
    /\ event.on = "size"
    /\ event.size = pages[event.panel].currentSize
    /\ pages[event.panel].isLandscape
    /\ pages[event.panel].wrapperClass = {event.size, "landscape"}
    /\ pages[event.panel].active = {event.size}
    /\ pages[event.panel].alignItems = "flex-start"
    /\ ~pages[event.panel].disabled
\* C24: in every state of a page whose script ran, after any clicks on the size
\* buttons and the orientation button and any messages, the orientation button
\* is disabled exactly when currentSize is desktop.
C24_ToggleDisabledIffDesktop ==
    \A p \in DOMAIN pages :
        pages[p].phase = "ready" =>
            (pages[p].disabled <=> pages[p].currentSize = "desktop")

\* a message was handled by a page that had been set to another size than
\* desktop: its orientation button is enabled
C24_Witness ==
    /\ event.on = "message"
    /\ pages[event.panel].currentSize = "laptop"
    /\ ~pages[event.panel].disabled

\* C25: in every state of a page whose script ran, the view shows the script's
\* variables: the wrapper has the class of currentSize, and the class landscape
\* exactly when isLandscape; the button of currentSize, and no other, is active;
\* isLandscape is false while currentSize is desktop.
C25_ViewMatchesModel ==
    \A p \in DOMAIN pages :
        pages[p].phase = "ready" =>
            /\ pages[p].currentSize \in Sizes
            /\ pages[p].wrapperClass =
                   {pages[p].currentSize}
                   \cup (IF pages[p].isLandscape THEN {"landscape"} ELSE {})
            /\ pages[p].active = {pages[p].currentSize}
            /\ pages[p].currentSize = "desktop" => ~pages[p].isLandscape

\* the orientation button was clicked on a mobile page, whose wrapper now has
\* the classes mobile and landscape
C25_Witness ==
    /\ event.on = "orientation"
    /\ pages[event.panel].currentSize = "mobile"
    /\ pages[event.panel].isLandscape
    /\ pages[event.panel].wrapperClass = {"mobile", "landscape"}
    /\ pages[event.panel].active = {"mobile"}
\* the base tag getWebviewHtml computed when webview.html of panel p was last
\* assigned
BaseTagOfPage(p) == panels[p].webview.html.baseHrefTagString

\* C26: the script's baseHrefTagString is the base tag computed when the page
\* was last assigned to webview.html, and every 'updateContent' message the page
\* applies is injected with it.  No message, click or edit changes it, in the
\* script or in the host: only a handler that assigns webview.html computes it.
C26_BaseTagFixedAtReload ==
    /\ [](\A p \in DOMAIN pages :
            pages[p].phase = "ready" => pages[p].baseHrefTagString = BaseTagOfPage(p))
    /\ [][\A p \in DOMAIN pages :
             /\ ReceiveMessage(p, FALSE) =>
                   /\ pages'[p].srcdoc =
                          injectBaseHrefIntoString(Head(inbox[p]).html, BaseTagOfPage(p))
                   /\ pages'[p].baseHrefTagString = pages[p].baseHrefTagString
                   /\ panels' = panels
             /\ ((\E throws \in BOOLEAN : ReceiveMessage(p, throws))
                 \/ (\E size \in Sizes : ClickSize(p, size))
                 \/ ClickOrientation(p)
                 \/ WebviewChangeTextDocument) =>
                   /\ pages'[p].baseHrefTagString = pages[p].baseHrefTagString
                   /\ panels'[p].webview.html = panels[p].webview.html
             /\ SetHtmlFor(calls', p) = {} =>
                   panels'[p].webview.html = panels[p].webview.html
         ]_vars

\* a page whose base tag is not empty applied a message: the markup in its
\* frame is the markup of the message with that base tag injected
C26_Witness ==
    /\ event.on = "message"
    /\ ~event.threw
    /\ pages[event.panel].baseHrefTagString # Str(<<>>)
    /\ pages[event.panel].baseHrefTagString = BaseTagOfPage(event.panel)
    /\ inbox[event.panel] = <<>>
    /\ pages[event.panel].srcdoc =
           injectBaseHrefIntoString(panels[event.panel].webview.dispatched,
                                    BaseTagOfPage(event.panel))
    /\ pages[event.panel].srcdoc # panels[event.panel].webview.dispatched
====
